---- MODULE Spec2Model ----
(***************************************************************************)
(* Browser-side interactivity of car-album: the like toggle handler in its *)
(* three historical variants (src/unnamed/part_000, part_001, part_002),   *)
(* the image modal controller (src/static/modal.js) and the ranking loader *)
(* (src/static/ranking.js).                                                *)
(*                                                                         *)
(* A page loads exactly one variant of the like script.  Every activation  *)
(* of the async like handler is an element of reqs from the click that     *)
(* issues its POST until its finally block has run.  The event loop runs   *)
(* one handler (or one continuation after an await) per step.              *)
(***************************************************************************)
EXTENDS Integers, Sequences, FiniteSets, TLC

VARIABLES variant,      \* which like script the page loaded
          page,         \* the like elements the page contains
          btn,          \* DOM state of every like element
          reqs,         \* activations of the async like handler
          server,       \* server side: has the viewer liked the entity
          location,     \* "page", or "/login" after location.href = "/login"
          effects,      \* what the last step did to the outside world
          images,       \* the page's img.post-image elements
          modalOpen,    \* modal.classList contains "open"
          ariaHidden,   \* modal's aria-hidden attribute
          modalImgSrc,  \* modalImg.src
          bodyOverflow, \* document.body.style.overflow
          event,        \* the last event delivered to the modal's listeners,
                        \* and whether it found the modal open
          docState,     \* "loading" until DOMContentLoaded has fired
          period,       \* value of the #ranking-period selector
          rankList,     \* the items of #ranking-list
          loads         \* activations of the async loadRanking

likeVars == <<variant, page, btn, reqs, server, location>>
modalVars == <<images, modalOpen, ariaHidden, modalImgSrc, bodyOverflow, event>>
rankVars == <<docState, period, rankList, loads>>
vars == <<variant, page, btn, reqs, server, location, effects,
          images, modalOpen, ariaHidden, modalImgSrc, bodyOverflow, event,
          docState, period, rankList, loads>>

\* How many like handler activations may be suspended at once.
MaxInFlight == 2
\* Likes given to an entity by other users.
BaseLikes == 3

Variants == {"part_000", "part_001", "part_002"}

\* The like elements: b1 and b2 are duplicated cards of post 42, b3 belongs
\* to post 43, b4 carries no data-post-id, c1 is a comment like.
Buttons == {"b1", "b2", "b3", "b4", "c1"}

Kind(b) == IF b = "c1" THEN "comment" ELSE "post"

EntityId(b) ==
  CASE b \in {"b1", "b2"} -> "42"
    [] b = "b3" -> "43"
    [] b = "b4" -> ""
    [] b = "c1" -> "7"

Url(b) == IF Kind(b) = "post" THEN <<"/api/like/", EntityId(b)>>
                               ELSE <<"/api/comment_like/", EntityId(b)>>

Urls == {Url(b) : b \in {x \in Buttons : EntityId(x) # ""}}

----------------------------------------------------------------------------
(* Click dispatch.                                                         *)

\* e.target.closest(sel) of the like listener finds the element.
Matches(v, b) ==
  IF v = "part_001" THEN TRUE          \* .js-like, then .js-comment-like
  ELSE Kind(b) = "post"                \* .js-like only

\* Third argument of document.addEventListener("click", ...).
LikeCapture(v) == v \in {"part_000", "part_002"}

\* Listeners on the propagation path of a click inside a like element: the
\* like listener on document, and the onclick of the enclosing card.
Listeners(v) ==
  { [node |-> "document", capture |-> LikeCapture(v), name |-> "like"],
    [node |-> "card", capture |-> FALSE, name |-> "card_onclick"] }

\* Propagation path of a click on like element b, or on its icon child.
EventPath(b, inner) ==
  IF inner THEN <<"document", "card", b, "icon">>
  ELSE <<"document", "card", b>>

\* The stops of the dispatch in order: capture from the root down to the
\* target's parent, the target, bubble from the parent up to the root.
DispatchOrder(path) ==
  LET n == Len(path) IN
  [i \in 1..(2 * n - 1) |->
     IF i < n THEN [node |-> path[i], phase |-> "capture"]
     ELSE IF i = n THEN [node |-> path[n], phase |-> "target"]
     ELSE [node |-> path[2 * n - i], phase |-> "bubble"]]

FiredAt(v, stop) ==
  { l.name : l \in { x \in Listeners(v) :
       /\ x.node = stop.node
       /\ \/ stop.phase = "target"
          \/ (stop.phase = "capture") = x.capture } }

\* The like listener calls e.stopPropagation() whenever closest() matched.
RECURSIVE Walk(_, _, _, _, _)
Walk(v, b, order, i, ran) ==
  IF i > Len(order) THEN ran
  ELSE LET fired == FiredAt(v, order[i])
           stopped == "like" \in fired /\ Matches(v, b)
       IN IF stopped THEN ran \cup fired
          ELSE Walk(v, b, order, i + 1, ran \cup fired)

HandlersRun(v, b, inner) == Walk(v, b, DispatchOrder(EventPath(b, inner)), 1, {})

----------------------------------------------------------------------------
(* The like handler: guard, busy state, display update.                    *)

InFlightFlag(v, bs) ==
  IF v = "part_001" THEN bs.isLoading ELSE bs.loading = "1"

\* The handler without its in-flight guard.
AdmitsWithoutGuard(v, b) == EntityId(b) # ""

\* The early returns before the request: TRUE when the handler goes on.
Admits(v, b) ==
  CASE v = "part_000" ->
         IF EntityId(b) = "" THEN FALSE
         ELSE IF btn[b].loading = "1" THEN FALSE ELSE TRUE
    [] v = "part_001" ->
         IF btn[b].isLoading THEN FALSE
         ELSE IF EntityId(b) = "" THEN FALSE ELSE TRUE
    [] v = "part_002" ->
         IF EntityId(b) = "" THEN FALSE
         ELSE IF btn[b].loading = "1" THEN FALSE ELSE TRUE

\* The handler disabling the element without raising its in-flight flag.
SetBusyWithoutFlag(v, bs) == [bs EXCEPT !.disabled = TRUE]

SetBusy(v, bs) ==
  CASE v = "part_000" -> [bs EXCEPT !.loading = "1", !.disabled = TRUE]
    [] v = "part_001" -> [bs EXCEPT !.isLoading = TRUE]
    [] v = "part_002" -> [bs EXCEPT !.loading = "1", !.disabled = TRUE,
                                    !.isLoading = TRUE]

\* A finally block that lowers the flag and leaves the element disabled.
ClearBusyKeepsDisabled(v, bs) ==
  IF v = "part_001" THEN [bs EXCEPT !.isLoading = FALSE]
  ELSE [bs EXCEPT !.loading = "0", !.isLoading = FALSE]

\* The finally block.
ClearBusy(v, bs) ==
  CASE v = "part_000" -> [bs EXCEPT !.loading = "0", !.disabled = FALSE]
    [] v = "part_001" -> [bs EXCEPT !.isLoading = FALSE]
    [] v = "part_002" -> [bs EXCEPT !.loading = "0", !.disabled = FALSE,
                                    !.isLoading = FALSE]

\* The display update without setAttribute("aria-pressed", ...).
setLikeBtnStateWithoutAria(bs, liked, likes) ==
  [bs EXCEPT !.active = liked,
             !.dataLiked = IF liked THEN "1" ELSE "0",
             !.icon = IF liked THEN "red_heart" ELSE "white_heart",
             !.count = likes]

setLikeBtnState(bs, liked, likes) ==
  [bs EXCEPT !.active = liked,
             !.dataLiked = IF liked THEN "1" ELSE "0",
             !.ariaPressed = IF liked THEN "true" ELSE "false",
             !.icon = IF liked THEN "red_heart" ELSE "white_heart",
             !.count = likes]

\* A selector that leaves out [data-post-id="..."].
UpdateTargetsAllPosts(v, b) == { x \in page : Kind(x) = "post" }

\* The elements a successful response is written to.
UpdateTargets(v, b) ==
  IF v = "part_002"
  THEN { x \in page : Kind(x) = "post" /\ EntityId(x) = EntityId(b) }
  ELSE {b}

updateButtons(v, b, liked, likes) ==
  [x \in Buttons |->
     IF x \in UpdateTargets(v, b) THEN setLikeBtnState(btn[x], liked, likes)
     ELSE btn[x]]

----------------------------------------------------------------------------
(* Requests and responses.                                                 *)

NoResp == [status |-> 0, parse |-> FALSE, ok |-> FALSE, error |-> "",
           liked |-> FALSE, likes |-> 0]

\* The suspended activations started from element b.
Pending(b) == { r \in reqs : r.btn = b }

\* A new activation for element b, awaiting fetch.  n tells apart the
\* activations that one element has at the same time.
NewReq(b) ==
  [btn |-> b, stage |-> "sent", resp |-> NoResp,
   n |-> CHOOSE k \in 1..(MaxInFlight + 1) :
           /\ \A r \in Pending(b) : r.n # k
           /\ \A j \in 1..(k - 1) : \E r \in Pending(b) : r.n = j]

Likes(liked) == BaseLikes + (IF liked THEN 1 ELSE 0)

\* What the endpoint may answer (spec section 6): parse says whether the
\* body is JSON, the other fields are the JSON payload.
ServerOutcomes == {"toggled", "login_required", "unauthenticated",
                   "server_error", "refused", "garbled"}

Response(o, liked) ==
  CASE o = "toggled" ->
         [status |-> 200, parse |-> TRUE, ok |-> TRUE, error |-> "",
          liked |-> liked, likes |-> Likes(liked)]
    [] o = "login_required" ->
         [status |-> 401, parse |-> TRUE, ok |-> FALSE,
          error |-> "login_required", liked |-> FALSE, likes |-> 0]
    [] o = "unauthenticated" ->
         [status |-> 401, parse |-> TRUE, ok |-> FALSE, error |-> "",
          liked |-> FALSE, likes |-> 0]
    [] o = "server_error" ->
         [status |-> 500, parse |-> FALSE, ok |-> FALSE, error |-> "",
          liked |-> FALSE, likes |-> 0]
    [] o = "refused" ->
         [status |-> 200, parse |-> TRUE, ok |-> FALSE, error |-> "msg",
          liked |-> FALSE, likes |-> 0]
    [] o = "garbled" ->
         [status |-> 200, parse |-> FALSE, ok |-> FALSE, error |-> "",
          liked |-> FALSE, likes |-> 0]

\* res.ok
ResOk(r) == r.status >= 200 /\ r.status <= 299

\* part_001: !r.ok || !r.data || r.data.ok !== true, where postJson leaves
\* data null when the body does not parse.
Failed001(r) == ~ResOk(r) \/ ~r.parse \/ r.ok # TRUE

\* A handler that takes every parsed payload for a success.
DataOkAlways(r) == TRUE

\* part_000, part_002: the negation of !data.ok
DataOk(r) == r.ok

----------------------------------------------------------------------------
(* Initial state of a page.                                                *)

Rendered(liked) ==
  [loading |-> "", disabled |-> FALSE, isLoading |-> FALSE,
   active |-> liked,
   dataLiked |-> IF liked THEN "1" ELSE "0",
   ariaPressed |-> IF liked THEN "true" ELSE "false",
   icon |-> IF liked THEN "red_heart" ELSE "white_heart",
   count |-> Likes(liked)]

\* A page with the two cards of post 42 and a like element without id.
DuplicatedCardsPage == {"b1", "b2", "b4"}

\* A page with post 42 and a comment.
CommentsPage == {"b1", "c1"}

\* A page with posts 42 and 43 and a like element without id.
TwoPostsPage == {"b1", "b3", "b4"}

InitLike ==
  /\ server = [u \in Urls |-> FALSE]
  /\ btn = [b \in Buttons |->
              Rendered(IF EntityId(b) = "" THEN FALSE ELSE server[Url(b)])]
  /\ reqs = {}
  /\ location = "page"
  /\ effects = {}

\* The modal as the page's markup has it before any event.
InitModalClosed ==
  /\ modalOpen = FALSE
  /\ ariaHidden = "true"
  /\ modalImgSrc = ""
  /\ bodyOverflow = ""
  /\ event = [type |-> "none", img |-> "none", closer |-> FALSE, key |-> "",
              open |-> FALSE]

\* The img.post-image elements of the page.
Images == {"img1", "img2"}

\* data-full of an image: missing, empty, or a path.
FullAttrs == {"absent", "", "/img/full/9.jpg"}

\* src attribute of an image: missing, or a path.
SrcAttrs == {"absent", "/img/9.jpg", "/img/8.jpg"}

\* The values of the #ranking-period selector.
Periods == {"day", "week", "month"}

\* The ranking page before DOMContentLoaded.
InitRankingPage ==
  /\ docState = "loading"
  /\ rankList = <<>>
  /\ loads = {}

Init ==
  /\ variant \in Variants
  /\ page \in {DuplicatedCardsPage, CommentsPage}
  /\ InitLike
  /\ images = [i \in Images |-> [full |-> "absent", src |-> "/img/9.jpg"]]
  /\ InitModalClosed
  /\ period = "week"
  /\ InitRankingPage

----------------------------------------------------------------------------
(* Steps of the like handler.                                              *)

\* The synchronous part of the handler up to its first await.
Start(b, by) ==
  LET issue == Admits(variant, b) IN
  /\ issue => Cardinality(reqs) < MaxInFlight
  /\ IF issue
     THEN /\ btn' = [btn EXCEPT ![b] = SetBusy(variant, @)]
          /\ reqs' = reqs \cup {NewReq(b)}
     ELSE UNCHANGED <<btn, reqs>>
  /\ effects' = by \cup (IF issue THEN {[what |-> "POST", on |-> b]} ELSE {})

\* A click on like element b (inner: on its icon child).
Click(b, inner) ==
  LET ran == { [what |-> h, on |-> b] : h \in HandlersRun(variant, b, inner) }
  IN
  /\ location = "page"
  /\ b \in page
  /\ IF [what |-> "like", on |-> b] \in ran /\ Matches(variant, b)
     THEN Start(b, ran)
     ELSE /\ UNCHANGED <<btn, reqs>>
          /\ effects' = ran
  /\ UNCHANGED <<variant, page, server, location>>
  /\ UNCHANGED modalVars
  /\ UNCHANGED rankVars

\* A submit listener that posts without going through toggleLike's guard.
SubmitUnguarded(b) ==
  /\ location = "page"
  /\ variant = "part_002"
  /\ b \in page
  /\ Kind(b) = "post"
  /\ EntityId(b) # ""
  /\ Cardinality(reqs) < MaxInFlight
  /\ btn' = [btn EXCEPT ![b] = SetBusy(variant, @)]
  /\ reqs' = reqs \cup {NewReq(b)}
  /\ effects' = {[what |-> "like", on |-> b],
                 [what |-> "submit_prevented", on |-> b],
                 [what |-> "POST", on |-> b]}
  /\ UNCHANGED <<variant, page, server, location>>
  /\ UNCHANGED modalVars
  /\ UNCHANGED rankVars

\* A submit event of the .like-form around post like element b: the
\* listener prevents the submission, stops the event and calls toggleLike.
Submit(b) ==
  /\ location = "page"
  /\ variant = "part_002"
  /\ b \in page
  /\ Kind(b) = "post"
  /\ Start(b, {[what |-> "like", on |-> b],
               [what |-> "submit_prevented", on |-> b]})
  /\ UNCHANGED <<variant, page, server, location>>
  /\ UNCHANGED modalVars
  /\ UNCHANGED rankVars

\* The endpoint handles the request of activation s and answers.
ServerHandle(s, o) ==
  LET u == Url(s.btn) IN
  /\ location = "page"
  /\ s.stage = "sent"
  /\ LET liked == IF o = "toggled" THEN ~server[u] ELSE server[u] IN
     /\ server' = [server EXCEPT ![u] = liked]
     /\ reqs' = (reqs \ {s}) \cup
                 {[s EXCEPT !.stage = "responded",
                            !.resp = Response(o, liked)]}
  /\ effects' = {}
  /\ UNCHANGED <<variant, page, btn, location>>
  /\ UNCHANGED modalVars
  /\ UNCHANGED rankVars

\* The connection fails before the response has arrived.
NetFail(s) ==
  /\ location = "page"
  /\ s.stage \in {"sent", "responded"}
  /\ reqs' = (reqs \ {s}) \cup {[s EXCEPT !.stage = "neterr", !.resp = NoResp]}
  /\ effects' = {}
  /\ UNCHANGED <<variant, page, btn, server, location>>
  /\ UNCHANGED modalVars
  /\ UNCHANGED rankVars

\* The activation s ends: its finally block runs.
Finish(s, newBtn, out) ==
  /\ btn' = [newBtn EXCEPT ![s.btn] = ClearBusy(variant, @)]
  /\ reqs' = reqs \ {s}
  /\ effects' = { [what |-> w, on |-> s.btn] : w \in out }

\* The connection is lost while the body of the response is read:
\* res.json() will reject as it does for a body that is not JSON, and the
\* payload is never seen.
BodyReadFail(s) ==
  /\ location = "page"
  /\ s.stage = "body"
  /\ s.resp.parse
  /\ reqs' = (reqs \ {s}) \cup
              {[s EXCEPT !.resp = [NoResp EXCEPT !.status = s.resp.status]]}
  /\ effects' = {}
  /\ UNCHANGED <<variant, page, btn, server, location>>
  /\ UNCHANGED modalVars
  /\ UNCHANGED rankVars

\* await fetch(...) rejects.  part_000 and part_002 catch the error;
\* part_001 has no catch, the rejection leaves postJson and the handler.
FetchReject(s) ==
  /\ location = "page"
  /\ s.stage = "neterr"
  /\ IF variant = "part_001"
     THEN Finish(s, btn, {"unhandledrejection"})
     ELSE Finish(s, btn, {"alert_network"})
  /\ UNCHANGED <<variant, page, server, location>>
  /\ UNCHANGED modalVars
  /\ UNCHANGED rankVars

\* await fetch(...) resolves with the response.  part_000 and part_002 look
\* at the status before they read the body; postJson of part_001 reads the
\* body of every response.
FetchResolve(s) ==
  LET r == s.resp IN
  /\ location = "page"
  /\ s.stage = "responded"
  /\ IF variant # "part_001" /\ r.status = 401
     THEN Finish(s, btn, {"alert_login"})
     ELSE IF variant # "part_001" /\ ~ResOk(r)
          THEN Finish(s, btn, {"alert_api"})
          ELSE /\ reqs' = (reqs \ {s}) \cup {[s EXCEPT !.stage = "body"]}
               /\ effects' = {}
               /\ UNCHANGED btn
  /\ UNCHANGED <<variant, page, server, location>>
  /\ UNCHANGED modalVars
  /\ UNCHANGED rankVars

\* part_001: postJson has returned {ok, status, data}, data null when
\* res.json() rejected, and handlePostLike or handleCommentLike runs to its
\* end.
HandleResult001(s) ==
  LET r == s.resp IN
  IF Failed001(r)
  THEN IF r.parse /\ r.error = "login_required"
       THEN /\ Finish(s, btn, {"redirect_login"})
            /\ location' = "/login"
       ELSE /\ Finish(s, btn, {})
            /\ UNCHANGED location
  ELSE /\ Finish(s, [btn EXCEPT ![s.btn] =
                       setLikeBtnState(@, r.liked, r.likes)], {})
       /\ UNCHANGED location

\* await res.json() settles and the handler runs to its end.
BodyResolve(s) ==
  LET r == s.resp IN
  /\ location = "page"
  /\ s.stage = "body"
  /\ IF variant = "part_001" THEN HandleResult001(s)
     ELSE /\ IF ~r.parse THEN Finish(s, btn, {"alert_network"})
             ELSE IF ~DataOk(r)
                  THEN Finish(s, btn, {IF r.error # "" THEN "alert_error"
                                       ELSE "alert_fallback"})
                  ELSE Finish(s, updateButtons(variant, s.btn, r.liked,
                                               r.likes), {})
          /\ UNCHANGED location
  /\ UNCHANGED <<variant, page, server>>
  /\ UNCHANGED modalVars
  /\ UNCHANGED rankVars

----------------------------------------------------------------------------
(* The image modal.                                                        *)

\* img.src: the src attribute resolved against the document's URL.
ImgSrcProperty(attr) ==
  IF attr = "absent" THEN "" ELSE "https://host" \o attr

\* The operands of || swapped: img.src || img.dataset.full
ClickedSourceSrcFirst(img) ==
  IF ImgSrcProperty(img.src) # "" THEN ImgSrcProperty(img.src)
  ELSE IF img.full = "absent" THEN "" ELSE img.full

\* img.dataset.full || img.src
ClickedSource(img) ==
  IF img.full # "absent" /\ img.full # "" THEN img.full
  ELSE ImgSrcProperty(img.src)

\* openModal without document.body.style.overflow = "hidden".
openModalWithoutScrollLock(src) ==
  IF src = ""
  THEN UNCHANGED <<modalImgSrc, modalOpen, ariaHidden, bodyOverflow>>
  ELSE /\ modalImgSrc' = src
       /\ modalOpen' = TRUE
       /\ ariaHidden' = "false"
       /\ UNCHANGED bodyOverflow

openModal(src) ==
  IF src = ""
  THEN UNCHANGED <<modalImgSrc, modalOpen, ariaHidden, bodyOverflow>>
  ELSE /\ modalImgSrc' = src
       /\ modalOpen' = TRUE
       /\ ariaHidden' = "false"
       /\ bodyOverflow' = "hidden"

\* closeModal without modalImg.src = "".
closeModalKeepsSrc ==
  /\ modalOpen' = FALSE
  /\ ariaHidden' = "true"
  /\ bodyOverflow' = ""
  /\ UNCHANGED modalImgSrc

closeModal ==
  /\ modalOpen' = FALSE
  /\ ariaHidden' = "true"
  /\ modalImgSrc' = ""
  /\ bodyOverflow' = ""

\* What a click can hit: img is the img.post-image that closest() finds
\* ("none" when there is none), closer whether closest("[data-close='1']")
\* finds an element.
ClickTargets == [img : Images \cup {"none"}, closer : BOOLEAN]

\* The click listener of modal.js.
ModalClick(t) ==
  /\ event' = [type |-> "click", img |-> t.img, closer |-> t.closer,
               key |-> "", open |-> modalOpen]
  /\ IF t.img # "none" THEN openModal(ClickedSource(images[t.img]))
     ELSE IF t.closer THEN closeModal
     ELSE UNCHANGED <<modalImgSrc, modalOpen, ariaHidden, bodyOverflow>>
  /\ UNCHANGED <<images, effects>>
  /\ UNCHANGED likeVars
  /\ UNCHANGED rankVars

Keys == {"Escape", "Enter"}

\* A keydown listener that does not look at e.key.
KeyDownAnyKey(k) ==
  /\ event' = [type |-> "keydown", img |-> "none", closer |-> FALSE,
               key |-> k, open |-> modalOpen]
  /\ IF modalOpen THEN closeModal
     ELSE UNCHANGED <<modalImgSrc, modalOpen, ariaHidden, bodyOverflow>>
  /\ UNCHANGED <<images, effects>>
  /\ UNCHANGED likeVars
  /\ UNCHANGED rankVars

\* The keydown listener of modal.js.
KeyDown(k) ==
  /\ event' = [type |-> "keydown", img |-> "none", closer |-> FALSE,
               key |-> k, open |-> modalOpen]
  /\ IF k = "Escape" /\ modalOpen THEN closeModal
     ELSE UNCHANGED <<modalImgSrc, modalOpen, ariaHidden, bodyOverflow>>
  /\ UNCHANGED <<images, effects>>
  /\ UNCHANGED likeVars
  /\ UNCHANGED rankVars

InitModal ==
  /\ variant = "part_002"
  /\ page = DuplicatedCardsPage
  /\ InitLike
  /\ images \in [Images -> [full : FullAttrs, src : SrcAttrs]]
  /\ InitModalClosed
  /\ period = "week"
  /\ InitRankingPage

NextModal ==
  \/ \E t \in ClickTargets : ModalClick(t)
  \/ \E k \in Keys : KeyDown(k)

ModalSpec == InitModal /\ [][NextModal]_vars

----------------------------------------------------------------------------
(* The ranking loader.                                                     *)

\* How many loadRanking activations may be suspended at once.
MaxLoads == 2

\* What GET /ranking?period=... returns for each period (spec section 6).
Ranking(p) ==
  CASE p = "day" -> <<>>
    [] p = "week" -> << [username |-> "a", car_name |-> "X", likes |-> 10],
                        [username |-> "b", car_name |-> "Y", likes |-> 5] >>
    [] p = "month" -> << [username |-> "c", car_name |-> "Z", likes |-> 12],
                         [username |-> "a", car_name |-> "X", likes |-> 11],
                         [username |-> "b", car_name |-> "Y", likes |-> 5] >>

\* The bodies a response can carry: the JSON array, JSON that is no array,
\* or a body that is no JSON.
BodyKinds == {"array", "object", "garbled"}

\* data.forEach((item, index) => ...): the li elements in response order.
RenderItems(data) ==
  [i \in 1..Len(data) |->
     LET index == i - 1 IN
     [classes |-> IF index = 0 THEN {"ranking-item", "rank-1"}
                  ELSE {"ranking-item"},
      rankNo |-> ToString(index + 1),
      rankName |-> data[i].username \o " / " \o data[i].car_name,
      rankLike |-> "heart " \o ToString(data[i].likes)]]

\* loadRanking that appends without list.innerHTML = "".
ListAfterJsonWithoutClear(old, kind, data) ==
  IF kind = "garbled" THEN old
  ELSE IF kind = "object" THEN old
  ELSE old \o RenderItems(data)

\* loadRanking that clears the list before it awaits the response.
ListAfterJsonClearedFirst(old, kind, data) ==
  IF kind = "garbled" THEN <<>>
  ELSE IF kind = "object" THEN <<>>
  ELSE RenderItems(data)

\* The list after await res.json() has settled: a body that does not parse
\* throws before the list is touched, a value without forEach throws after
\* the list was cleared.
ListAfterJson(old, kind, data) ==
  IF kind = "garbled" THEN old
  ELSE IF kind = "object" THEN <<>>
  ELSE RenderItems(data)

\* A new activation of loadRanking for the period read from the selector.
NewLoad(p) ==
  [period |-> p, stage |-> "sent", kind |-> "",
   n |-> CHOOSE k \in 1..(MaxLoads + 1) :
           /\ \A l \in loads : l.n # k
           /\ \A j \in 1..(k - 1) : \E l \in loads : l.n = j]

\* loadRanking up to await fetch.
LoadStart(p) ==
  /\ Cardinality(loads) < MaxLoads
  /\ loads' = loads \cup {NewLoad(p)}
  /\ effects' = {[what |-> "GET", on |-> p]}
  /\ UNCHANGED rankList

\* document.addEventListener("DOMContentLoaded", loadRanking)
DOMContentLoaded ==
  /\ docState = "loading"
  /\ docState' = "ready"
  /\ LoadStart(period)
  /\ UNCHANGED period
  /\ UNCHANGED likeVars
  /\ UNCHANGED modalVars

\* The user selects period p and the page calls loadRanking.
ChangePeriod(p) ==
  /\ docState = "ready"
  /\ p # period
  /\ period' = p
  /\ LoadStart(p)
  /\ UNCHANGED docState
  /\ UNCHANGED likeVars
  /\ UNCHANGED modalVars

\* The endpoint answers the request of activation l.
RankingAnswer(l, k) ==
  /\ l.stage = "sent"
  /\ loads' = (loads \ {l}) \cup {[l EXCEPT !.stage = "responded", !.kind = k]}
  /\ effects' = {}
  /\ UNCHANGED <<docState, period, rankList>>
  /\ UNCHANGED likeVars
  /\ UNCHANGED modalVars

\* The connection fails before the response has arrived.
RankingNetFail(l) ==
  /\ l.stage \in {"sent", "responded"}
  /\ loads' = (loads \ {l}) \cup {[l EXCEPT !.stage = "neterr", !.kind = ""]}
  /\ effects' = {}
  /\ UNCHANGED <<docState, period, rankList>>
  /\ UNCHANGED likeVars
  /\ UNCHANGED modalVars

\* The connection is lost while the body of the response is read:
\* res.json() will reject as it does for a body that is not JSON.
RankingBodyReadFail(l) ==
  /\ l.stage = "body"
  /\ l.kind # "garbled"
  /\ loads' = (loads \ {l}) \cup {[l EXCEPT !.kind = "garbled"]}
  /\ effects' = {}
  /\ UNCHANGED <<docState, period, rankList>>
  /\ UNCHANGED likeVars
  /\ UNCHANGED modalVars

\* await fetch(...) rejects: loadRanking throws at its first await.
RankingFetchReject(l) ==
  /\ l.stage = "neterr"
  /\ loads' = loads \ {l}
  /\ effects' = {[what |-> "unhandledrejection", on |-> l.period]}
  /\ UNCHANGED <<docState, period, rankList>>
  /\ UNCHANGED likeVars
  /\ UNCHANGED modalVars

\* await fetch(...) resolves; loadRanking goes on to await res.json().
RankingFetchResolve(l) ==
  /\ l.stage = "responded"
  /\ loads' = (loads \ {l}) \cup {[l EXCEPT !.stage = "body"]}
  /\ effects' = {}
  /\ UNCHANGED <<docState, period, rankList>>
  /\ UNCHANGED likeVars
  /\ UNCHANGED modalVars

\* await res.json() settles and loadRanking runs to its end.
RankingBodyResolve(l) ==
  /\ l.stage = "body"
  /\ loads' = loads \ {l}
  /\ rankList' = ListAfterJson(rankList, l.kind, Ranking(l.period))
  /\ effects' = {[what |-> IF l.kind = "array" THEN "rendered"
                           ELSE "unhandledrejection",
                  on |-> l.period]}
  /\ UNCHANGED <<docState, period>>
  /\ UNCHANGED likeVars
  /\ UNCHANGED modalVars

InitRanking ==
  /\ variant = "part_002"
  /\ page = DuplicatedCardsPage
  /\ InitLike
  /\ images = [i \in Images |-> [full |-> "absent", src |-> "/img/9.jpg"]]
  /\ InitModalClosed
  /\ period \in Periods
  /\ InitRankingPage

NextRanking ==
  \/ DOMContentLoaded
  \/ \E p \in Periods : ChangePeriod(p)
  \/ \E l \in loads, k \in BodyKinds : RankingAnswer(l, k)
  \/ \E l \in loads : RankingNetFail(l)
  \/ \E l \in loads : RankingBodyReadFail(l)
  \/ \E l \in loads : RankingFetchReject(l)
  \/ \E l \in loads : RankingFetchResolve(l)
  \/ \E l \in loads : RankingBodyResolve(l)

RankingSpec == InitRanking /\ [][NextRanking]_vars

\* Overlapping refreshes in which every request is answered with the
\* ranking and no connection fails.
NextRankingAnswered ==
  \/ DOMContentLoaded
  \/ \E p \in Periods : ChangePeriod(p)
  \/ \E l \in loads : RankingAnswer(l, "array")
  \/ \E l \in loads : RankingFetchResolve(l)
  \/ \E l \in loads : RankingBodyResolve(l)

RankingAnsweredSpec == InitRanking /\ [][NextRankingAnswered]_vars

NextLike ==
  \/ \E b \in Buttons, inner \in BOOLEAN : Click(b, inner)
  \/ \E b \in Buttons : Submit(b)
  \/ \E s \in reqs, o \in ServerOutcomes : ServerHandle(s, o)
  \/ \E s \in reqs : NetFail(s)
  \/ \E s \in reqs : BodyReadFail(s)
  \/ \E s \in reqs : FetchReject(s)
  \/ \E s \in reqs : FetchResolve(s)
  \/ \E s \in reqs : BodyResolve(s)

Spec == Init /\ [][NextLike]_vars

InitTwoPosts ==
  /\ variant \in Variants
  /\ page = TwoPostsPage
  /\ InitLike
  /\ images = [i \in Images |-> [full |-> "absent", src |-> "/img/9.jpg"]]
  /\ InitModalClosed
  /\ period = "week"
  /\ InitRankingPage

TwoPostsSpec == InitTwoPosts /\ [][NextLike]_vars

----------------------------------------------------------------------------
(* Vocabulary of the properties.                                           *)

\* The like elements the loaded script's selector finds.
LikeElements == { b \in Buttons : Matches(variant, b) }

\* Activation s is suspended before the step and gone after it.
Settles(s) ==
  /\ s \in reqs
  /\ ~ \E r \in reqs' : r.btn = s.btn /\ r.n = s.n

\* How the request of an activation that settles has ended.
OutcomeOf(s) ==
  IF s.stage = "neterr" THEN "network"
  ELSE IF s.resp.status = 401 THEN "401"
  ELSE IF ~ResOk(s.resp) THEN "http_error"
  ELSE IF ~s.resp.parse THEN "parse"
  ELSE IF ~s.resp.ok THEN "ok_false"
  ELSE "success"

\* What a like element shows of the liked state and the count.
Display(bs) == <<bs.active, bs.ariaPressed, bs.dataLiked, bs.icon, bs.count>>

DisplayOf(liked, likes) ==
  <<liked, IF liked THEN "true" ELSE "false", IF liked THEN "1" ELSE "0",
    IF liked THEN "red_heart" ELSE "white_heart", likes>>

Did(w, b) == [what |-> w, on |-> b] \in effects

ModalState == <<modalOpen, ariaHidden, modalImgSrc, bodyOverflow>>

----------------------------------------------------------------------------
(* Like toggle handler.                                                    *)

\* C1: a like element never has more than one request outstanding: while
\* one is pending, no click on the element issues another POST.
C1_OneRequestWhilePending ==
  \A b \in Buttons : Cardinality(Pending(b)) <= 1

\* A click on b1 has just been dropped by the guard while b1's request is
\* pending.
C1_Witness ==
  /\ Did("like", "b1")
  /\ ~Did("POST", "b1")
  /\ Cardinality(Pending("b1")) = 1

\* C2: the in-flight flag of a like element is set exactly while a request
\* issued from it is outstanding.
C2_FlagIffOutstanding ==
  \A b \in Buttons : InFlightFlag(variant, btn[b]) <=> Pending(b) # {}

\* A click on b2 was dropped while its request is pending and its flag is
\* still set.
C2_Witness ==
  /\ Did("like", "b2")
  /\ ~Did("POST", "b2")
  /\ Pending("b2") # {}
  /\ InFlightFlag(variant, btn["b2"])

\* C3: when a like request settles, by whichever outcome, the element's
\* in-flight flag, its disabled state and its loading class are cleared, so
\* the guard admits the next click on it.
C3_SettleUnlocks ==
  [][\A s \in reqs : Settles(s) =>
        /\ ~InFlightFlag(variant, btn'[s.btn])
        /\ ~btn'[s.btn].disabled
        /\ ~btn'[s.btn].isLoading
        /\ btn'[s.btn].loading # "1"]_vars

\* A request of b1 has just ended in a network failure and b1 is unlocked.
C3_Witness ==
  /\ \/ Did("alert_network", "b1")
     \/ Did("unhandledrejection", "b1")
  /\ Pending("b1") = {}
  /\ ~InFlightFlag(variant, btn["b1"])
  /\ ~btn["b1"].disabled

\* C4: a step in which a like request ends in a failure (401, other
\* non-2xx, ok:false payload, network or parse exception) leaves the liked
\* state and the count shown by every like element as they were.
C4_FailureKeepsDisplay ==
  [][\A s \in reqs : (Settles(s) /\ OutcomeOf(s) # "success") =>
        \A b \in Buttons : Display(btn'[b]) = Display(btn[b])]_vars

\* b1 shows a like from an earlier success, and a later request of b1 has
\* just been refused by the server.
C4_Witness ==
  /\ \/ Did("alert_error", "b1")
     \/ Did("alert_login", "b1")
     \/ Did("redirect_login", "b1")
  /\ Display(btn["b1"]) = DisplayOf(TRUE, BaseLikes + 1)

\* C5: after a successful toggle response for an entity, every like
\* element bound to that entity shows the liked state and the count of the
\* response.
C5_AllElementsUpdated ==
  [][\A s \in reqs : (Settles(s) /\ OutcomeOf(s) = "success") =>
        \A b \in Buttons :
           (Kind(b) = Kind(s.btn) /\ EntityId(b) = EntityId(s.btn)) =>
              Display(btn'[b]) = DisplayOf(s.resp.liked, s.resp.likes)]_vars

\* C6: a click inside a like element never runs the click handler of an
\* ancestor.
C6_NoAncestorHandler ==
  \A b \in LikeElements : ~Did("card_onclick", b)

\* C7: a like request that receives a 401 response surfaces a login
\* required signal, an alert or a redirect to the login page.
C7_LoginSignalOn401 ==
  [][\A s \in reqs : (Settles(s) /\ OutcomeOf(s) = "401") =>
        \/ [what |-> "alert_login", on |-> s.btn] \in effects'
        \/ [what |-> "redirect_login", on |-> s.btn] \in effects']_vars

\* C8: a network failure or an unparseable body surfaces the connectivity
\* notice and the error does not leave the handler.
C8_FailureHandledLocally ==
  [][\A s \in reqs : (Settles(s) /\ OutcomeOf(s) \in {"network", "parse"}) =>
        /\ [what |-> "alert_network", on |-> s.btn] \in effects'
        /\ [what |-> "unhandledrejection", on |-> s.btn] \notin effects']_vars

\* The entity a like element is bound to.
Entity(b) == <<Kind(b), EntityId(b)>>

\* C13: right after a successful response for an entity has settled, with
\* no request for that entity outstanding, every element bound to the
\* entity shows the server's liked state and count.
C13_DisplayMirrorsServer ==
  [][\A s \in reqs :
        (/\ Settles(s)
         /\ OutcomeOf(s) = "success"
         /\ \A r \in reqs' : Entity(r.btn) # Entity(s.btn)) =>
           \A b \in page :
              Entity(b) = Entity(s.btn) =>
                 Display(btn'[b]) =
                   DisplayOf(server'[Url(b)], Likes(server'[Url(b)]))]_vars

\* The parts of a like element that show the liked state denote liked.
PartsDenote(bs, liked) ==
  /\ bs.active = liked
  /\ bs.ariaPressed = (IF liked THEN "true" ELSE "false")
  /\ bs.dataLiked = (IF liked THEN "1" ELSE "0")
  /\ bs.icon = (IF liked THEN "red_heart" ELSE "white_heart")

\* C14: in every state the active class, aria-pressed, data-liked and the
\* icon of each like element denote the same liked boolean, and whenever
\* what an element shows changes, it changes in one step to the liked state
\* and the count of a successful response.
C14_PartsAgree ==
  /\ [](\A b \in Buttons : \E liked \in BOOLEAN : PartsDenote(btn[b], liked))
  /\ [][\A b \in Buttons :
           Display(btn'[b]) # Display(btn[b]) =>
              \E s \in reqs :
                 /\ Settles(s)
                 /\ OutcomeOf(s) = "success"
                 /\ Display(btn'[b]) = DisplayOf(s.resp.liked, s.resp.likes)]_vars

\* b2 shows a like with all its parts and the new count.
C14_Witness ==
  /\ PartsDenote(btn["b2"], TRUE)
  /\ btn["b2"].count = BaseLikes + 1
  /\ Pending("b2") = {}

\* C15: in part_002 no click and no submit issues a POST for a like element
\* whose request is pending, so the element has one request at most.
C15_SubmitSharesGuard ==
  [][variant = "part_002" =>
       \A b \in Buttons :
          /\ Pending(b) # {} => [what |-> "POST", on |-> b] \notin effects'
          /\ Cardinality(Pending(b)') <= 1]_vars

\* A submit of b1's form has just been suppressed and dropped by the guard
\* while b1's request is pending.
C15_Witness ==
  /\ variant = "part_002"
  /\ Did("submit_prevented", "b1")
  /\ ~Did("POST", "b1")
  /\ Cardinality(Pending("b1")) = 1

\* C16: a click on an idle like element with an id, of a kind the variant
\* handles, issues its request
\* whatever is pending elsewhere, and a request that settles leaves every
\* like element bound to another entity exactly as it was.
C16_EntitiesIndependent ==
  [][/\ \A b \in Buttons :
          (/\ [what |-> "like", on |-> b] \in effects'
           /\ Matches(variant, b)
           /\ Pending(b) = {}
           /\ EntityId(b) # "") =>
             /\ [what |-> "POST", on |-> b] \in effects'
             /\ Pending(b)' # {}
     /\ \A s \in reqs :
          Settles(s) =>
             \A b \in Buttons :
                Entity(b) # Entity(s.btn) => btn'[b] = btn[b]]_vars

\* b3's request has just been issued while the request of b1, bound to
\* another post, is pending.
C16_Witness ==
  /\ Did("POST", "b3")
  /\ Pending("b3") # {}
  /\ Pending("b1") # {}

----------------------------------------------------------------------------
(* Image modal.                                                            *)

\* The source a click on an image is to show: data-full when present and
\* not empty, else the displayed source, "" when there is neither.
SourceToShow(img) ==
  IF img.full # "absent" /\ img.full # "" THEN img.full
  ELSE IF img.src # "absent" THEN "https://host" \o img.src
  ELSE ""

\* C9: a click on an image opens the modal with data-full when that is
\* present and not empty, else with the displayed source; with no source
\* the click changes nothing.  After an open the overlay is visible,
\* aria-hidden is "false" and the page scroll is suppressed.
C9_OpenShowsSource ==
  [][(event'.type = "click" /\ event'.img # "none") =>
        LET src == SourceToShow(images[event'.img]) IN
        IF src = "" THEN ModalState' = ModalState
        ELSE ModalState' = <<TRUE, "false", src, "hidden">>]_vars

\* The modal shows the data-full source of an image that also has a src.
C9_Witness ==
  /\ event.type = "click"
  /\ event.img # "none"
  /\ images[event.img].full = "/img/full/9.jpg"
  /\ images[event.img].src # "absent"
  /\ ModalState = <<TRUE, "false", "/img/full/9.jpg", "hidden">>

\* C10: from the open state a click on a close control or Escape closes
\* the modal: overlay hidden, aria-hidden "true", source cleared, scroll
\* restored.  A closed modal holds no source, so an open never shows what
\* an earlier open left behind.
C10_CloseClears ==
  /\ [](~modalOpen => modalImgSrc = "")
  /\ [][(/\ modalOpen
         /\ \/ event'.type = "click" /\ event'.img = "none" /\ event'.closer
            \/ event'.type = "keydown" /\ event'.key = "Escape") =>
        ModalState' = <<FALSE, "true", "", "">>]_vars

\* Escape has just closed an open modal.
C10_Witness ==
  /\ event.type = "keydown"
  /\ event.key = "Escape"
  /\ event.open
  /\ ModalState = <<FALSE, "true", "", "">>

\* C11: Escape pressed while the modal is closed, and any other key in
\* either state, leaves overlay, aria-hidden, image source and page scroll
\* as they were.
C11_KeyWithoutTransition ==
  [][(/\ event'.type = "keydown"
      /\ \/ ~modalOpen
         \/ event'.key # "Escape") => ModalState' = ModalState]_vars

\* A key other than Escape was pressed on the open modal, which is still
\* open.
C11_Witness ==
  /\ event.type = "keydown"
  /\ event.key # "Escape"
  /\ event.open
  /\ modalOpen
  /\ modalImgSrc # ""

\* C17: the four flags of the modal agree in every state reached from the
\* closed state, and closing a closed modal or opening an open modal with
\* the source it shows changes nothing.
C17_FlagsAgree ==
  /\ [](/\ modalOpen <=> ariaHidden = "false"
        /\ modalOpen <=> bodyOverflow = "hidden"
        /\ modalOpen <=> modalImgSrc # ""
        /\ ariaHidden \in {"true", "false"}
        /\ bodyOverflow \in {"", "hidden"})
  /\ [][(/\ event'.type = "click"
         /\ \/ ~modalOpen /\ event'.img = "none" /\ event'.closer
            \/ /\ modalOpen
               /\ event'.img # "none"
               /\ SourceToShow(images[event'.img]) = modalImgSrc) =>
        ModalState' = ModalState]_vars

\* An image was clicked while the modal was open, and the modal shows it
\* with all four flags in the open position.
C17_Witness ==
  /\ event.type = "click"
  /\ event.img # "none"
  /\ event.open
  /\ ModalState = <<TRUE, "false", SourceToShow(images[event.img]), "hidden">>

----------------------------------------------------------------------------
(* Ranking loader.                                                         *)

\* Activation l of loadRanking is suspended before the step and gone after.
LoadSettles(l) ==
  /\ l \in loads
  /\ ~ \E m \in loads' : m.n = l.n

\* The list shows exactly the entries of data: item i with rank i, the
\* label "username / car_name", the like count, the first item marked.
ShowsRanking(list, data) ==
  /\ Len(list) = Len(data)
  /\ \A i \in 1..Len(data) :
       /\ list[i].rankNo = ToString(i)
       /\ list[i].rankName = data[i].username \o " / " \o data[i].car_name
       /\ list[i].rankLike = "heart " \o ToString(data[i].likes)
       /\ "rank-1" \in list[i].classes <=> i = 1

\* C12: when a ranking fetch returns an array of n entries, the list holds
\* afterwards exactly the n items of the response in order and nothing of
\* what it held before, item i with rank i, label and like count, and only
\* the first item carries the rank-1 mark.
C12_RendersResponse ==
  [][\A l \in loads :
        (LoadSettles(l) /\ l.stage = "body" /\ l.kind = "array") =>
           ShowsRanking(rankList', Ranking(l.period))]_vars

\* The week ranking has just been rendered over the month ranking's place:
\* two items, "a / X" with 10 likes first and marked.
C12_Witness ==
  /\ Did("rendered", "week")
  /\ Len(rankList) = 2
  /\ rankList[1] = [classes |-> {"ranking-item", "rank-1"}, rankNo |-> "1",
                    rankName |-> "a / X", rankLike |-> "heart 10"]
  /\ rankList[2].classes = {"ranking-item"}

\* C18: the list is at every moment the complete rendering of one
\* response, and when a refresh has rendered and none is pending the list
\* is the ranking of the period the selector shows.
C18_SettledListIsSelectedPeriod ==
  /\ \E p \in Periods : ShowsRanking(rankList, Ranking(p))
  /\ (loads = {} /\ \E p \in Periods : Did("rendered", p)) =>
        ShowsRanking(rankList, Ranking(period))

\* C19: a ranking fetch that fails by a network error or an unparseable
\* body leaves the rendered list exactly as it was.
C19_FailedFetchKeepsList ==
  [][\A l \in loads :
        (/\ LoadSettles(l)
         /\ \/ l.stage = "neterr"
            \/ l.stage = "body" /\ l.kind = "garbled") =>
           rankList' = rankList]_vars

\* A refresh has just failed and the list still shows a ranking.
C19_Witness ==
  /\ \E p \in Periods : Did("unhandledrejection", p)
  /\ Len(rankList) > 0
  /\ \E p \in Periods : ShowsRanking(rankList, Ranking(p))
====
